---- MODULE Spec2Model ----
(***************************************************************************)
(* Model of crates/editor/src/mouse_context_menu.rs: the editor's mouse    *)
(* context menu.  One editor, its selection state, its menu slot, the      *)
(* window's focus holder and the dismissal subscriptions of the menus.     *)
(***************************************************************************)
EXTENDS FiniteSets, Integers, Sequences, TLC

\* ---------------------------------------------------------------- bounds
\* Buffer points are 0..MaxPoint (one line of text, columns).
MaxPoint == 3
\* At most MaxRanges selection ranges (disjoint plus pending) initially.
MaxRanges == 2
\* At most MaxMenus context menus are built in one behaviour.
MaxMenus == 2

\* Screen positions handed to deploy_context_menu (Point<Pixels>).
Positions == {0, 1}

\* ------------------------------------------------------- Option<T> values
None == <<>>
Some(x) == <<x>>
is_some(o) == o # None
is_none(o) == o = None
unwrap(o) == o[1]
\* The set of values an Option holds (empty for None).
OptionSet(o) == {o[i] : i \in 1..Len(o)}

\* ------------------------------------------------------ display mapping
\* The display map folds the buffer range [Fold[1], Fold[2]) into a
\* one-column placeholder, so buffer and display columns differ.
Fold == <<0, 2>>
BufferPoints == 0..MaxPoint

\* ToDisplayPoint::to_display_point: buffer point -> display point.  A point
\* hidden inside the fold maps to the fold's start.
to_display_point(p) ==
    IF p <= Fold[1] THEN p
    ELSE IF p < Fold[2] THEN Fold[1]
    ELSE p - (Fold[2] - Fold[1]) + 1

\* DisplayPoint::to_point: display point -> buffer point.
to_point(d) ==
    IF d <= Fold[1] THEN d ELSE d + (Fold[2] - Fold[1]) - 1

DisplayPoints == {to_display_point(p) : p \in BufferPoints}

\* buffer.anchor_before(point): the buffer is not edited, an anchor is the
\* buffer point it was created at.
anchor_before(p) == p

\* ------------------------------------------------------------ focus model
EditorFocus == <<"editor", 0>>
OtherFocus == <<"other", 0>>
NoFocus == <<"none", 0>>
\* The focus handle of context menu m, and of an element inside it.
MenuFocus(m) == <<"menu", m>>
SubmenuFocus(m) == <<"submenu", m>>

\* Mutant: the editor counts as focused while its context menu holds focus.
is_focused_within(f) == f = EditorFocus \/ f[1] \in {"menu", "submenu"}

\* editor.is_focused(cx): the editor's handle is the exact focus holder.
is_focused(f) == f = EditorFocus

\* Mutant: the handler tests the menu's handle for exact focus.
contains_focused_exact(m, f) == f = MenuFocus(m)

\* context_menu_focus.contains_focused(cx): focus is on the menu's handle or
\* on a descendant of it.
contains_focused(m, f) == f = MenuFocus(m) \/ f = SubmenuFocus(m)

\* cx.focused(): the focus holder, if any; the default menu binds it as its
\* context.
cx_focused(f) == IF f = NoFocus THEN None ELSE Some(f)

\* ------------------------------------------------------------ editor state
EditorModes == {"SingleLine", "AutoHeight", "Full"}
SelectModes == {"Character", "Word"}
\* Custom context-menu builders: "never" returns None at every point,
\* "at_origin" returns Some(menu) at display point 0 and None elsewhere.
Builders == {"never", "at_origin"}
\* cfg!(target_os = ..): the platform the editor was built for.
TargetOS == {"macos", "linux"}

VARIABLES
    mode,                 \* editor.mode()
    project,              \* editor.project.is_some()
    custom_context_menu,  \* editor.custom_context_menu: Option<builder>
    selections,           \* editor.selections: [disjoint, pending]
    mouse_context_menu,   \* editor.mouse_context_menu: Option<MouseContextMenu>
    instances,            \* the MouseContextMenu values alive (each owns its _subscription)
    focused,              \* the window's focus holder
    menus,                \* number of ui::ContextMenu views built so far
    target_os,            \* cfg!(target_os): fixed by the build
    last                  \* the last operation: the steps it took, the point it
                          \* hit-tested or gave the builder, the position it
                          \* gave MouseContextMenu::new, the menu concerned,
                          \* the entries of the default menu it built and the
                          \* focus bound as that menu's context

vars == <<mode, project, custom_context_menu, selections, mouse_context_menu,
          instances, focused, menus, target_os, last>>

\* ------------------------------------------------------------- selections
Ranges == {r \in [start : BufferPoints, end : BufferPoints] : r.start <= r.end}

\* SelectionsCollection.disjoint: sorted, non-overlapping, non-touching lists
\* of at most n ranges that start at lo or later.
RECURSIVE DisjointLists(_, _)
DisjointLists(lo, n) ==
    {<<>>} \cup
    (IF n = 0 THEN {}
     ELSE UNION {{<<r>> \o t : t \in DisjointLists(r.end + 1, n - 1)} :
                 r \in {x \in Ranges : x.start >= lo}})

\* SelectionsCollection.pending: Option<PendingSelection {selection, mode}>.
\* A pending selection present initially comes from a word-granular drag;
\* Character pending selections are the ones deploy_context_menu sets.
PendingSelections ==
    {None} \cup {Some([selection |-> r, mode |-> "Word"]) : r \in Ranges}

\* An editor always has at least one selection.
InitialSelections ==
    {s \in [disjoint : DisjointLists(0, MaxRanges), pending : PendingSelections] :
        /\ Len(s.disjoint) + Len(s.pending) >= 1
        /\ Len(s.disjoint) + Len(s.pending) <= MaxRanges}

\* -------------------------------------------------------- MouseContextMenu
\* Mutant: the subscription is bound to `_` and dropped at once.
MouseContextMenu_new_unsubscribed(position, context_menu, insts) ==
    LET self == [position |-> position, context_menu |-> context_menu]
    IN  [instance |-> self,
         focused |-> MenuFocus(context_menu),
         instances |-> insts]

\* MouseContextMenu::new: focuses the menu, subscribes to its DismissEvent
\* and returns the instance that owns the subscription.
MouseContextMenu_new(position, context_menu, insts) ==
    LET self == [position |-> position, context_menu |-> context_menu]
    IN  [instance |-> self,
         focused |-> MenuFocus(context_menu),
         instances |-> insts \cup {self}]

\* Mutant: the subscription is detached, it outlives its instance.
Subscribed_detached(insts) == 1..menus

\* The menus whose DismissEvent subscription is alive.
Subscribed(insts) == {i.context_menu : i \in insts}

\* Mutant: the instance the slot held is leaked, not dropped.
AssignSlot_leak(slot, insts, new) == [slot |-> Some(new), instances |-> insts]

\* editor.mouse_context_menu = Some(mouse_context_menu): the assignment drops
\* the instance the slot held, and with it that instance's subscription.
AssignSlot(slot, insts, new) ==
    [slot |-> Some(new), instances |-> insts \ OptionSet(slot)]

\* Mutant: the new instance is swapped in, the prior one dropped afterwards.
AssignSlotSteps_swap(slot) ==
    <<"store">> \o (IF is_some(slot) THEN <<"drop_prior">> ELSE <<>>)

\* The order of the assignment's effects: the value the slot held is dropped
\* in place, then the new value is moved in.
AssignSlotSteps(slot) ==
    (IF is_some(slot) THEN <<"drop_prior">> ELSE <<>>) \o <<"store">>

\* Mutant: the instance taken out of the slot is kept alive.
TakeSlot_kept(slot, insts) == [slot |-> None, instances |-> insts]

\* this.mouse_context_menu.take(): empties the slot; the instance taken is a
\* temporary, dropped at the end of the statement.
TakeSlot(slot, insts) ==
    [slot |-> None, instances |-> insts \ OptionSet(slot)]

\* The focus holder after the dismissal handler of menu m.
FocusAfterDismiss(m, f) == IF contains_focused(m, f) THEN EditorFocus ELSE f

\* ----------------------------------------------------- deploy_context_menu
\* Mutant: the editor is not focused on entry.
FocusOnEntry_skipped(f) == f

\* if !editor.is_focused(cx) { editor.focus(cx) }
FocusOnEntry(f) == IF ~is_focused(f) THEN EditorFocus ELSE f

\* Mutant: only single-line editors are refused.
ModeIsFull_not_single_line(m) == m # "SingleLine"

\* editor.mode() == EditorMode::Full
ModeIsFull(m) == m = "Full"

\* Mutant: the project guard is missing.
project_is_none_unchecked(p) == FALSE

\* editor.project.is_none()
project_is_none(p) == ~p

\* custom(editor, point, cx): TRUE when the builder returns Some(menu).
custom(b, point) ==
    CASE b = "never" -> FALSE
      [] b = "at_origin" -> point = 0

\* Mutant: the builder taken out of the slot is not put back.
RestoreBuilder_forgotten(b) == None

\* editor.custom_context_menu = Some(custom)
RestoreBuilder(b) == Some(b)

\* Mutant: the end of a range counts as inside it.
contains_inclusive(r, p) == r.start <= p /\ p <= r.end

\* Range<DisplayPoint>::contains: half-open.
contains(r, p) == r.start <= p /\ p < r.end

\* Mutant: the pending selection is not chained in.
display_ranges_disjoint_only(sel) ==
    [i \in 1..Len(sel.disjoint) |->
        [start |-> to_display_point(sel.disjoint[i].start),
         end |-> to_display_point(sel.disjoint[i].end)]]

\* display_ranges: the disjoint selections chained with the pending one, each
\* mapped to display points.
display_ranges(sel) ==
    LET all == sel.disjoint \o [i \in 1..Len(sel.pending) |-> sel.pending[i].selection]
    IN  [i \in 1..Len(all) |->
            [start |-> to_display_point(all[i].start),
             end |-> to_display_point(all[i].end)]]

\* display_ranges(..).any(|r| r.contains(&point))
InsideSelection(sel, point) ==
    LET ranges == display_ranges(sel)
    IN  \E i \in 1..Len(ranges) : contains(ranges[i], point)

\* Mutant: the disjoint selections are not cleared.
change_selections_keep_disjoint(sel, anchor) ==
    [disjoint |-> sel.disjoint,
     pending |-> Some([selection |-> [start |-> anchor, end |-> anchor],
                       mode |-> "Character"])]

\* s.clear_disjoint(); s.set_pending_anchor_range(anchor..anchor, Character)
change_selections(sel, anchor) ==
    [disjoint |-> <<>>,
     pending |-> Some([selection |-> [start |-> anchor, end |-> anchor],
                       mode |-> "Character"])]

\* Mutant: the rule is applied only when no menu is open, an open menu keeps
\* the selections of the deployment that opened it.
AdjustSelections_unless_open(sel, point) ==
    LET anchor == anchor_before(to_point(point))
    IN  IF ~InsideSelection(sel, point) /\ is_none(mouse_context_menu)
        THEN [selections |-> change_selections(sel, anchor),
              steps |-> <<"change_selections">>]
        ELSE [selections |-> sel, steps |-> <<>>]

\* The selection-adjustment rule of the default path: editor.change_selections
\* is called whenever the point is in no display range, also when the
\* selections already are the cursor it sets.
AdjustSelections(sel, point) ==
    LET anchor == anchor_before(to_point(point))
    IN  IF ~InsideSelection(sel, point)
        THEN [selections |-> change_selections(sel, anchor),
              steps |-> <<"change_selections">>]
        ELSE [selections |-> sel, steps |-> <<>>]

\* ------------------------------------------------------- default menu
\* menu.action(label, action) and menu.separator(): one entry each.
action(label, act) == <<[label |-> label, action |-> act]>>
separator == <<[label |-> "", action |-> "separator"]>>
\* builder.when(condition, |builder| ..): the entries are added when the
\* condition holds.
when(condition, entries) == IF condition THEN entries ELSE <<>>

\* Mutant: both reveal entries are guarded by the macOS test.
RevealEntries_same_guard(os) ==
    when(os = "macos", action("Reveal in Finder", "RevealInFileManager"))
    \o when(os = "macos", action("Reveal in File Manager", "RevealInFileManager"))

\* The two platform-conditional entries.
RevealEntries(os) ==
    when(os = "macos", action("Reveal in Finder", "RevealInFileManager"))
    \o when(os # "macos", action("Reveal in File Manager", "RevealInFileManager"))

\* The entries ui::ContextMenu::build assembles on the default path.
DefaultMenuEntries(os) ==
    action("Rename Symbol", "Rename")
    \o action("Go to Definition", "GoToDefinition")
    \o action("Go to Type Definition", "GoToTypeDefinition")
    \o action("Go to Implementation", "GoToImplementation")
    \o action("Find All References", "FindAllReferences")
    \o action("Code Actions", "ToggleCodeActions")
    \o separator
    \o action("Cut", "Cut")
    \o action("Copy", "Copy")
    \o action("Paste", "Paste")
    \o separator
    \o RevealEntries(os)
    \o action("Open in Terminal", "OpenInTerminal")
    \o action("Copy Permalink", "CopyPermalinkToLine")
    \o action("Copy File:Line", "CopyFileLine")

\* Mutant: an aborted deployment empties the menu slot.
Aborted_clears_slot(f, steps, outcome) ==
    [focused |-> f, custom |-> custom_context_menu, selections |-> selections,
     slot |-> None, instances |-> {}, menus |-> menus,
     menu |-> 0, position |-> 0, context |-> None, entries |-> <<>>,
     steps |-> steps, outcome |-> outcome]

\* The editor after an aborted deployment: only the entry focus took effect.
Aborted(f, steps, outcome) ==
    [focused |-> f, custom |-> custom_context_menu, selections |-> selections,
     slot |-> mouse_context_menu, instances |-> instances, menus |-> menus,
     menu |-> 0, position |-> 0, context |-> None, entries |-> <<>>,
     steps |-> steps, outcome |-> outcome]

\* Mutant: a deployment over an open menu closes it instead of replacing it.
Deployed_toggles(position, sel, steps) ==
    LET context_menu == menus + 1
        new == MouseContextMenu_new(position, context_menu, instances)
        stored == IF is_some(mouse_context_menu)
                  THEN [slot |-> None, instances |-> {}]
                  ELSE AssignSlot(mouse_context_menu, new.instances, new.instance)
    IN  [focused |-> new.focused, custom |-> custom_context_menu, selections |-> sel,
         slot |-> stored.slot, instances |-> stored.instances, menus |-> context_menu,
         menu |-> context_menu, position |-> position, context |-> None,
         entries |-> <<>>,
         steps |-> steps \o <<"focus_menu", "subscribe">>
                   \o AssignSlotSteps(mouse_context_menu) \o <<"notify">>,
         outcome |-> "deployed"]

\* MouseContextMenu::new, the store into the slot and cx.notify().
Deployed(position, sel, steps) ==
    LET context_menu == menus + 1
        new == MouseContextMenu_new(position, context_menu, instances)
        stored == AssignSlot(mouse_context_menu, new.instances, new.instance)
    IN  [focused |-> new.focused, custom |-> custom_context_menu, selections |-> sel,
         slot |-> stored.slot, instances |-> stored.instances, menus |-> context_menu,
         menu |-> context_menu, position |-> position, context |-> None,
         entries |-> <<>>,
         steps |-> steps \o <<"focus_menu", "subscribe">>
                   \o AssignSlotSteps(mouse_context_menu) \o <<"notify">>,
         outcome |-> "deployed"]

\* Mutant: the project guard is evaluated before the custom builder.
DeployResult_project_guard_first(position, point) ==
    LET f1 == FocusOnEntry(focused)
        s1 == (IF f1 # focused THEN <<"focus_editor">> ELSE <<>>) \o <<"mode_guard">>
    IN  IF ~ModeIsFull(mode) THEN Aborted(f1, s1, "abort_mode")
        ELSE IF project_is_none(project) THEN Aborted(f1, s1 \o <<"project_guard">>, "abort_project")
        ELSE IF is_some(custom_context_menu) THEN
            LET b == unwrap(custom_context_menu)
                menu == custom(b, point)
                s2 == s1 \o <<"take_builder", "call_builder", "restore_builder">>
                restored == RestoreBuilder(b)
            IN  IF ~menu
                THEN [Aborted(f1, s2, "abort_custom") EXCEPT !.custom = restored]
                ELSE [Deployed(position, selections, s2) EXCEPT !.custom = restored]
        ELSE
            LET adjusted == AdjustSelections(selections, point)
                s3 == s1 \o <<"project_guard", "display_ranges">>
                      \o adjusted.steps
                      \o <<"capture_focus", "build_menu">>
            IN  [Deployed(position, adjusted.selections, s3) EXCEPT
                     !.context = cx_focused(f1),
                     !.entries = DefaultMenuEntries(target_os)]

\* The whole of deploy_context_menu(editor, position, point, cx).
DeployResult(position, point) ==
    LET f1 == FocusOnEntry(focused)
        s1 == (IF f1 # focused THEN <<"focus_editor">> ELSE <<>>) \o <<"mode_guard">>
    IN  IF ~ModeIsFull(mode) THEN Aborted(f1, s1, "abort_mode")
        ELSE IF is_some(custom_context_menu) THEN
            LET b == unwrap(custom_context_menu)
                menu == custom(b, point)
                s2 == s1 \o <<"take_builder", "call_builder", "restore_builder">>
                restored == RestoreBuilder(b)
            IN  IF ~menu
                THEN [Aborted(f1, s2, "abort_custom") EXCEPT !.custom = restored]
                ELSE [Deployed(position, selections, s2) EXCEPT !.custom = restored]
        ELSE IF project_is_none(project) THEN Aborted(f1, s1 \o <<"project_guard">>, "abort_project")
        ELSE
            LET adjusted == AdjustSelections(selections, point)
                s3 == s1 \o <<"project_guard", "display_ranges">>
                      \o adjusted.steps
                      \o <<"capture_focus", "build_menu">>
            IN  [Deployed(position, adjusted.selections, s3) EXCEPT
                     !.context = cx_focused(f1),
                     !.entries = DefaultMenuEntries(target_os)]

deploy_context_menu(position, point) ==
    \E r \in {DeployResult(position, point)} :
        /\ r.menus <= MaxMenus
        /\ focused' = r.focused
        /\ custom_context_menu' = r.custom
        /\ selections' = r.selections
        /\ mouse_context_menu' = r.slot
        /\ instances' = r.instances
        /\ menus' = r.menus
        /\ last' = [op |-> "deploy", position |-> r.position,
                    point |-> IF r.outcome \in {"abort_mode", "abort_project"}
                              THEN 0 ELSE point,
                    menu |-> r.menu, context |-> r.context, entries |-> r.entries,
                    steps |-> r.steps, outcome |-> r.outcome]
        /\ UNCHANGED <<mode, project, target_os>>

\* ------------------------------------------------------------ DismissEvent
\* Menu m emits DismissEvent.  The closure subscribed in MouseContextMenu::new
\* runs only while the subscription of an instance for m is alive.
DismissEvent(m) ==
    LET subscribed == m \in Subscribed(instances)
        taken == TakeSlot(mouse_context_menu, instances)
        refocus == contains_focused(m, focused)
    IN  /\ m \in 1..menus
        /\ mouse_context_menu' = IF subscribed THEN taken.slot ELSE mouse_context_menu
        /\ instances' = IF subscribed THEN taken.instances ELSE instances
        /\ focused' = IF subscribed THEN FocusAfterDismiss(m, focused) ELSE focused
        /\ last' = [op |-> "dismiss", position |-> 0, point |-> 0, menu |-> m,
                    context |-> None, entries |-> <<>>,
                    steps |-> IF subscribed
                              THEN <<"take">> \o (IF refocus THEN <<"focus_editor">> ELSE <<>>)
                              ELSE <<>>,
                    outcome |-> IF subscribed THEN "handled" ELSE "ignored"]
        /\ UNCHANGED <<mode, project, custom_context_menu, selections, menus,
                       target_os>>

\* ------------------------------------------------------------ focus system
\* The user moves focus to another widget, or into the open menu.
FocusTargets ==
    {OtherFocus} \cup {SubmenuFocus(i.context_menu) : i \in OptionSet(mouse_context_menu)}

FocusMoved(target) ==
    /\ target \in FocusTargets
    /\ target # focused
    /\ focused' = target
    /\ last' = [op |-> "focus", position |-> 0, point |-> 0, menu |-> 0,
                context |-> None, entries |-> <<>>,
                steps |-> <<>>, outcome |-> "moved"]
    /\ UNCHANGED <<mode, project, custom_context_menu, selections,
                   mouse_context_menu, instances, menus, target_os>>

\* --------------------------------------------------------- specification
Init ==
    /\ mode \in EditorModes
    /\ project \in BOOLEAN
    /\ custom_context_menu \in {None} \cup {Some(b) : b \in Builders}
    /\ selections \in InitialSelections
    /\ mouse_context_menu = None
    /\ instances = {}
    /\ focused \in {EditorFocus, OtherFocus, NoFocus}
    /\ menus = 0
    /\ target_os \in TargetOS
    /\ last = [op |-> "init", position |-> 0, point |-> 0, menu |-> 0,
               context |-> None, entries |-> <<>>,
               steps |-> <<>>, outcome |-> "init"]

Next ==
    \/ \E position \in Positions, point \in DisplayPoints :
           deploy_context_menu(position, point)
    \/ \E m \in 1..MaxMenus : DismissEvent(m)
    \/ \E target \in {OtherFocus} \cup {SubmenuFocus(m) : m \in 1..MaxMenus} :
           FocusMoved(target)

Spec == Init /\ [][Next]_vars

\* ------------------------------------------------------------ properties
\* Helpers of the properties below.
InSteps(x) == \E i \in 1..Len(last.steps) : last.steps[i] = x
CountSteps(steps, x) == Cardinality({i \in 1..Len(steps) : steps[i] = x})
IsDeploy(l) == l.op = "deploy"
IsDismiss(l) == l.op = "dismiss"
AbortOutcomes == {"abort_mode", "abort_custom", "abort_project"}
\* The selection ranges in display coordinates, as a set, written out from
\* the selection state.
AllRanges(sel) ==
    {sel.disjoint[i] : i \in 1..Len(sel.disjoint)}
    \cup {sel.pending[i].selection : i \in 1..Len(sel.pending)}
ClickedInRange(sel, p) ==
    \E r \in AllRanges(sel) :
        to_display_point(r.start) <= p /\ p < to_display_point(r.end)
ClickedStrictlyInside(sel, p) ==
    \E r \in AllRanges(sel) :
        to_display_point(r.start) < p /\ p < to_display_point(r.end)
NoMenuCreated ==
    /\ mouse_context_menu' = mouse_context_menu
    /\ instances' = instances
    /\ menus' = menus

\* C1: the editor holds at most one MouseContextMenu, the one in its slot;
\* after a successful deployment, also one that replaced an open menu, the
\* only instance is the new one, at the position given to the call.
C1_AtMostOneMenu ==
    /\ Cardinality(instances) <= 1
    /\ instances = OptionSet(mouse_context_menu)
    /\ (IsDeploy(last) /\ last.outcome = "deployed") =>
           instances = {[position |-> last.position, context_menu |-> last.menu]}

C1_Witness ==
    /\ IsDeploy(last) /\ last.outcome = "deployed"
    /\ InSteps("drop_prior")
    /\ last.menu = 2
    /\ mouse_context_menu = Some([position |-> 1, context_menu |-> 2])

\* C2: once a second deployment has replaced the first instance, a
\* DismissEvent of the replaced menu changes neither the slot nor the focus.
C2_StaleDismissalIsNoOp ==
    [][\A m \in 1..MaxMenus :
        (/\ IsDismiss(last') /\ last'.menu = m
         /\ is_some(mouse_context_menu)
         /\ unwrap(mouse_context_menu).context_menu # m)
        => (/\ mouse_context_menu' = mouse_context_menu
            /\ instances' = instances
            /\ focused' = focused)]_vars

C2_Witness ==
    /\ IsDismiss(last) /\ last.outcome = "ignored"
    /\ is_some(mouse_context_menu)
    /\ last.menu < unwrap(mouse_context_menu).context_menu
    /\ focused = MenuFocus(unwrap(mouse_context_menu).context_menu)

\* C3: the DismissEvent of the stored menu empties the slot; focus goes to
\* the editor when it is on the menu or inside it, and stays where it is
\* otherwise.
C3_DismissClearsAndRefocuses ==
    [][\A m \in 1..MaxMenus :
        (/\ IsDismiss(last') /\ last'.menu = m
         /\ is_some(mouse_context_menu)
         /\ unwrap(mouse_context_menu).context_menu = m)
        => (/\ mouse_context_menu' = None
            /\ instances' = {}
            /\ (focused \in {MenuFocus(m), SubmenuFocus(m)} => focused' = EditorFocus)
            /\ (focused \notin {MenuFocus(m), SubmenuFocus(m)} => focused' = focused))]_vars

C3_Witness ==
    /\ IsDismiss(last) /\ last.outcome = "handled"
    /\ ~InSteps("focus_editor")
    /\ mouse_context_menu = None
    /\ focused = OtherFocus

\* C4: on the default path a click outside every selection range leaves no
\* disjoint range and one pending zero-width Character selection at the
\* clicked point, and a menu in the slot.
C4_ClickOutsideMovesCursor ==
    [][(/\ IsDeploy(last')
        /\ mode = "Full" /\ project /\ is_none(custom_context_menu)
        /\ ~ClickedInRange(selections, last'.point))
       => (/\ selections'.disjoint = <<>>
           /\ Len(selections'.pending) = 1
           /\ selections'.pending[1].mode = "Character"
           /\ selections'.pending[1].selection.start = selections'.pending[1].selection.end
           /\ selections'.pending[1].selection.start = to_point(last'.point)
           /\ to_display_point(selections'.pending[1].selection.start) = last'.point
           /\ is_some(mouse_context_menu'))]_vars

C4_Witness ==
    /\ IsDeploy(last) /\ last.outcome = "deployed"
    /\ InSteps("change_selections")
    /\ last.point = 2
    /\ selections = [disjoint |-> <<>>,
                     pending |-> Some([selection |-> [start |-> to_point(2), end |-> to_point(2)],
                                       mode |-> "Character"])]
    /\ is_some(mouse_context_menu)

\* C5: a deployment at a point strictly inside a selection range, disjoint or
\* pending, leaves the selection state as it was.  The point is the one the
\* call hit-tested or gave the builder; a call stopped by the mode guard or
\* the project guard reads no point and leaves the selections alone at any.
C5_ClickInsideKeepsSelections ==
    [][(/\ IsDeploy(last')
        /\ \/ last'.outcome \in {"abort_mode", "abort_project"}
           \/ ClickedStrictlyInside(selections, last'.point))
       => selections' = selections]_vars

C5_Witness ==
    /\ IsDeploy(last) /\ last.outcome = "deployed"
    /\ InSteps("display_ranges")
    /\ Len(selections.disjoint) = 2
    /\ ClickedStrictlyInside(selections, last.point)

\* C6: in an editor that is not in Full mode a deployment creates no menu and
\* leaves the selections alone.
C6_NotFullNoMenu ==
    [][(IsDeploy(last') /\ mode # "Full")
       => (NoMenuCreated /\ selections' = selections)]_vars

C6_Witness ==
    /\ IsDeploy(last) /\ last.outcome = "abort_mode"
    /\ mode = "AutoHeight"
    /\ project
    /\ custom_context_menu = Some("at_origin")
    /\ mouse_context_menu = None

\* C7 as stated: without a project a deployment creates no menu and leaves
\* the selections alone.
C7_Original ==
    [][(IsDeploy(last') /\ ~project)
       => (NoMenuCreated /\ selections' = selections)]_vars

\* C7, amended: without a project and without a custom builder a deployment
\* creates no menu and leaves the selections alone.
C7_NoProjectNoBuilderNoMenu ==
    [][(IsDeploy(last') /\ ~project /\ is_none(custom_context_menu))
       => (NoMenuCreated /\ selections' = selections)]_vars

C7_Witness ==
    /\ IsDeploy(last) /\ last.outcome = "abort_project"
    /\ mode = "Full" /\ ~project /\ is_none(custom_context_menu)
    /\ mouse_context_menu = None

\* C8: in Full mode with a builder registered, a deployment calls the builder
\* once and leaves the same builder in the slot; when the builder returns no
\* menu, none is created.  Outside Full mode the builder is not called.
C8_BuilderCalledOnceAndRestored ==
    [][IsDeploy(last') =>
        /\ (mode = "Full" /\ is_some(custom_context_menu)) =>
              /\ CountSteps(last'.steps, "call_builder") = 1
              /\ CountSteps(last'.steps, "take_builder") = 1
              /\ custom_context_menu' = custom_context_menu
              /\ (~custom(unwrap(custom_context_menu), last'.point) => NoMenuCreated)
        /\ (mode # "Full") =>
              /\ CountSteps(last'.steps, "call_builder") = 0
              /\ custom_context_menu' = custom_context_menu]_vars

C8_Witness ==
    /\ IsDeploy(last) /\ last.outcome = "abort_custom"
    /\ InSteps("call_builder")
    /\ custom_context_menu = Some("at_origin")
    /\ last.point # 0

\* C9 as stated: a deployment aborted by the mode guard or by the builder
\* changes nothing, the focus holder included.
C9_Original ==
    [][(IsDeploy(last') /\ last'.outcome \in {"abort_mode", "abort_custom"})
       => UNCHANGED <<mode, project, custom_context_menu, selections,
                      mouse_context_menu, instances, menus, target_os, focused>>]_vars

\* C9, amended: such a deployment changes nothing but the focus holder,
\* which is the editor afterwards.
C9_AbortChangesOnlyFocus ==
    [][(IsDeploy(last') /\ last'.outcome \in {"abort_mode", "abort_custom"})
       => (/\ UNCHANGED <<mode, project, custom_context_menu, selections,
                          mouse_context_menu, instances, menus, target_os>>
           /\ focused' = EditorFocus)]_vars

C9_Witness ==
    /\ IsDeploy(last) /\ last.outcome = "abort_custom"
    /\ InSteps("focus_editor")
    /\ is_some(mouse_context_menu)
    /\ focused = EditorFocus

\* C10: a deployment entered without focus on the editor focuses the editor
\* as its first step, before the guards, the builder and the selection
\* adjustment; it returns with focus on the editor when it aborts and on the
\* new menu when it succeeds.
C10_FocusFirst ==
    [][IsDeploy(last') =>
        /\ (focused # EditorFocus) =>
              (last'.steps[1] = "focus_editor" /\ last'.steps[2] = "mode_guard")
        /\ (focused = EditorFocus) => last'.steps[1] = "mode_guard"
        /\ CountSteps(last'.steps, "focus_editor") <= 1
        /\ (last'.outcome \in AbortOutcomes) => focused' = EditorFocus
        /\ (last'.outcome = "deployed") =>
              (focused' = MenuFocus(menus + 1) /\ menus' = menus + 1
               /\ mouse_context_menu'[1].context_menu = menus + 1)]_vars

C10_Witness ==
    /\ IsDeploy(last) /\ last.outcome = "abort_project"
    /\ last.steps = <<"focus_editor", "mode_guard", "project_guard">>
    /\ focused = EditorFocus

\* More helpers of the properties.
StepIndex(steps, x) == CHOOSE i \in 1..Len(steps) : steps[i] = x
Live(insts) == {i.context_menu : i \in insts}

\* C11: a successful deployment ends with focus on the new menu, a live
\* DismissEvent subscription for it, the new instance in the slot at the
\* position given to the call, and cx.notify() as its last step; an aborted
\* deployment constructs no instance and subscribes to nothing.
C11_DeployedMenuIsFocusedSubscribedStored ==
    [][IsDeploy(last') =>
        /\ (last'.outcome = "deployed") =>
              /\ menus' = menus + 1 /\ last'.menu = menus'
              /\ focused' = MenuFocus(last'.menu)
              /\ last'.menu \in Live(instances')
              /\ mouse_context_menu' =
                     Some([position |-> last'.position, context_menu |-> last'.menu])
              /\ CountSteps(last'.steps, "focus_menu") = 1
              /\ CountSteps(last'.steps, "subscribe") = 1
              /\ last'.steps[Len(last'.steps)] = "notify"
        /\ (last'.outcome \in AbortOutcomes) =>
              /\ menus' = menus
              /\ instances' = instances
              /\ CountSteps(last'.steps, "subscribe") = 0
              /\ CountSteps(last'.steps, "focus_menu") = 0
              /\ CountSteps(last'.steps, "notify") = 0]_vars

C11_Witness ==
    /\ IsDeploy(last) /\ last.outcome = "deployed"
    /\ InSteps("call_builder")
    /\ last.position = 1
    /\ focused = MenuFocus(last.menu)
    /\ Live(instances) = {last.menu}

\* C12: the slot changes only by a successful deployment, which fills it,
\* and by the DismissEvent of the menu it holds, which empties it; a
\* deployment never empties a filled slot, and an aborted one leaves it as
\* it was.
C12_MenuLifecycle ==
    [][/\ (mouse_context_menu' # mouse_context_menu) =>
            \/ /\ IsDeploy(last') /\ last'.outcome = "deployed"
               /\ is_some(mouse_context_menu')
               /\ unwrap(mouse_context_menu').context_menu = last'.menu
            \/ /\ IsDismiss(last') /\ is_some(mouse_context_menu)
               /\ last'.menu = unwrap(mouse_context_menu).context_menu
               /\ mouse_context_menu' = None
       /\ (IsDeploy(last') /\ is_some(mouse_context_menu)) => is_some(mouse_context_menu')
       /\ (IsDeploy(last') /\ last'.outcome \in AbortOutcomes) =>
            mouse_context_menu' = mouse_context_menu]_vars

C12_Witness ==
    /\ IsDismiss(last) /\ last.outcome = "handled"
    /\ last.menu = 2
    /\ menus = 2
    /\ mouse_context_menu = None

\* C13: the default menu holds these entries in this order, with the one
\* reveal entry the platform selects: "Reveal in Finder" on macOS, "Reveal in
\* File Manager" elsewhere, never both and never neither.
Labels(entries) == [i \in 1..Len(entries) |-> entries[i].label]
RevealLabels == {"Reveal in Finder", "Reveal in File Manager"}
C13_DefaultMenuEntries ==
    (IsDeploy(last) /\ InSteps("build_menu")) =>
        /\ Labels(last.entries) =
             <<"Rename Symbol", "Go to Definition", "Go to Type Definition",
               "Go to Implementation", "Find All References", "Code Actions", "",
               "Cut", "Copy", "Paste", "",
               IF target_os = "macos" THEN "Reveal in Finder" ELSE "Reveal in File Manager",
               "Open in Terminal", "Copy Permalink", "Copy File:Line">>
        /\ \A i \in 1..Len(last.entries) :
               (last.entries[i].action = "separator") <=> (i \in {7, 11})
        /\ Cardinality({i \in 1..Len(last.entries) :
                           last.entries[i].label \in RevealLabels}) = 1
        /\ last.entries[12].action = "RevealInFileManager"

C13_Witness ==
    /\ IsDeploy(last) /\ InSteps("build_menu")
    /\ target_os = "linux"
    /\ Len(last.entries) = 15
    /\ last.entries[12].label = "Reveal in File Manager"

\* C14: when a successful deployment replaces an open instance, the prior
\* instance and its subscription are dropped before the new instance is
\* stored, and the prior menu is no longer subscribed afterwards.
C14_PriorDroppedBeforeStore ==
    [][(IsDeploy(last') /\ last'.outcome = "deployed" /\ is_some(mouse_context_menu)) =>
        /\ CountSteps(last'.steps, "drop_prior") = 1
        /\ CountSteps(last'.steps, "store") = 1
        /\ StepIndex(last'.steps, "drop_prior") < StepIndex(last'.steps, "store")
        /\ unwrap(mouse_context_menu).context_menu \notin Live(instances')
        /\ unwrap(mouse_context_menu) \notin instances']_vars

C14_Witness ==
    /\ IsDeploy(last) /\ last.outcome = "deployed"
    /\ InSteps("drop_prior") /\ InSteps("build_menu")
    /\ StepIndex(last.steps, "drop_prior") + 1 = StepIndex(last.steps, "store")
    /\ Live(instances) = {2}

\* C15: the handler of a menu runs only for the stored menu, and after it
\* has run that menu is subscribed no more and never again, so a further
\* DismissEvent of the same menu changes nothing, whatever the slot holds.
C15_DismissHandledOnce ==
    [][/\ \A m \in 1..MaxMenus :
            (IsDismiss(last') /\ last'.menu = m) =>
                /\ m \notin Live(instances')
                /\ (last'.outcome = "handled") =>
                       (is_some(mouse_context_menu)
                        /\ unwrap(mouse_context_menu).context_menu = m)
                /\ (is_none(mouse_context_menu)
                    \/ unwrap(mouse_context_menu).context_menu # m) =>
                       /\ last'.outcome = "ignored"
                       /\ last'.steps = <<>>
                       /\ UNCHANGED <<mouse_context_menu, instances, focused>>
       /\ \A m \in 1..menus : m \notin Live(instances) => m \notin Live(instances')]_vars

C15_Witness ==
    /\ IsDismiss(last) /\ last.outcome = "ignored"
    /\ last.menu = menus
    /\ mouse_context_menu = None
    /\ instances = {}

\* The selection state that is one pending zero-width Character selection at
\* display point p.
CursorAt(p) ==
    [disjoint |-> <<>>,
     pending |-> Some([selection |-> [start |-> to_point(p), end |-> to_point(p)],
                       mode |-> "Character"])]
DefaultPath == mode = "Full" /\ project /\ is_none(custom_context_menu)
IsCursorOfDeploy(sel) == \E p \in DisplayPoints : sel = CursorAt(p)

\* C16: every default-path deployment, also one made after earlier ones and
\* while a menu is open, applies the rule to the selections current at the
\* call: a click outside them leaves one pending cursor at the clicked point,
\* and after the pending cursor of an earlier deployment every click does;
\* change_selections is called once on a click outside, also when the cursor
\* is already there, and not at all on a click inside.
C16_RuleReevaluatedEachDeployment ==
    [][(IsDeploy(last') /\ DefaultPath) =>
        /\ ~ClickedInRange(selections, last'.point) => selections' = CursorAt(last'.point)
        /\ ClickedInRange(selections, last'.point) => selections' = selections
        /\ IsCursorOfDeploy(selections) => selections' = CursorAt(last'.point)
        /\ CountSteps(last'.steps, "change_selections")
               = (IF ClickedInRange(selections, last'.point) THEN 0 ELSE 1)]_vars

C16_Witness ==
    /\ IsDeploy(last) /\ last.outcome = "deployed" /\ DefaultPath
    /\ last.menu = 2
    /\ InSteps("drop_prior")
    /\ InSteps("change_selections")
    /\ last.point = 1
    /\ selections = CursorAt(1)

\* C17 as stated: on the default path a click at the start of a non-empty
\* range keeps the selections; a click at the end of a range, or at a
\* zero-width selection, leaves one pending cursor at the clicked point.
ClickedAtStart(sel, p) ==
    \E r \in AllRanges(sel) :
        to_display_point(r.start) = p /\ to_display_point(r.start) < to_display_point(r.end)
ClickedAtEnd(sel, p) ==
    \E r \in AllRanges(sel) : to_display_point(r.end) = p
AllZeroWidth(sel) ==
    \A r \in AllRanges(sel) : to_display_point(r.start) = to_display_point(r.end)
C17_Original ==
    [][(IsDeploy(last') /\ DefaultPath) =>
        /\ ClickedAtStart(selections, last'.point) => selections' = selections
        /\ ClickedAtEnd(selections, last'.point) => selections' = CursorAt(last'.point)
        /\ AllZeroWidth(selections) => selections' = CursorAt(last'.point)]_vars

\* C17, amended: a range contains the points p with start <= p < end.  A
\* click at the start of a non-empty range keeps the selections; a click at
\* the end of a range, or at a zero-width selection, is outside that range
\* and leaves one pending cursor at the clicked point unless another range
\* contains the point; when every selection is zero-width every click does.
C17_HalfOpenHitTest ==
    [][(IsDeploy(last') /\ DefaultPath) =>
        /\ ClickedAtStart(selections, last'.point) => selections' = selections
        /\ (ClickedAtEnd(selections, last'.point)
            /\ ~ClickedInRange(selections, last'.point)) =>
               selections' = CursorAt(last'.point)
        /\ AllZeroWidth(selections) => selections' = CursorAt(last'.point)]_vars

\* A click at the start of one range that is also the end of another: the
\* selections are kept.
C17_Witness ==
    /\ IsDeploy(last) /\ last.outcome = "deployed" /\ DefaultPath
    /\ ~InSteps("change_selections")
    /\ ClickedAtStart(selections, last.point)
    /\ ClickedAtEnd(selections, last.point)
    /\ Len(selections.disjoint) = 2

\* C18: in Full mode with a builder registered, a deployment evaluates
\* neither the project guard nor the selection rule: the selections stay as
\* they are, and when the builder returns a menu it is stored, with or
\* without a project.
C18_BuilderSkipsGuardAndRule ==
    [][(IsDeploy(last') /\ mode = "Full" /\ is_some(custom_context_menu)) =>
        /\ selections' = selections
        /\ CountSteps(last'.steps, "project_guard") = 0
        /\ CountSteps(last'.steps, "display_ranges") = 0
        /\ CountSteps(last'.steps, "change_selections") = 0
        /\ custom(unwrap(custom_context_menu), last'.point) =>
              /\ last'.outcome = "deployed"
              /\ menus' = menus + 1
              /\ mouse_context_menu' =
                     Some([position |-> last'.position, context_menu |-> menus + 1])]_vars

C18_Witness ==
    /\ IsDeploy(last) /\ last.outcome = "deployed"
    /\ mode = "Full" /\ ~project /\ is_some(custom_context_menu)
    /\ is_some(mouse_context_menu)
    /\ Len(selections.disjoint) = 2
    /\ ~ClickedInRange(selections, last.point)

\* C19: the focus the default path binds as the menu's context is present
\* and is the editor, also when the call was made while a menu or another
\* element held focus.
C19_ContextIsEditor ==
    (IsDeploy(last) /\ InSteps("capture_focus")) =>
        /\ last.context = Some(EditorFocus)
        /\ last.context # None

C19_Witness ==
    /\ IsDeploy(last) /\ InSteps("capture_focus")
    /\ InSteps("focus_editor")
    /\ InSteps("drop_prior")
    /\ last.context = Some(EditorFocus)

====
